---- MODULE Spec2Model ----
\* CDN provider abstraction and dispatch layer (tokenring-ai/cdn):
\* the CDNService facade, the CDNProvider/CDNResource base class with its
\* default HTTP behaviours, and the provider backends used by the test suite.
EXTENDS Integers, Sequences, FiniteSets, TLC

VARIABLES
    items,          \* registry map: registered name -> provider instance
    activeItemName, \* <<>> when nothing is active, <<name>> otherwise
    registered,     \* history: name -> provider passed to the latest registerProvider
    files,          \* per storing backend: Map url -> stored value
    counts,         \* per storing backend: invocation counters of the four operations
    inflight,       \* dispatch calls whose promise has not been observed yet
    last,           \* the most recently settled operation, as its caller saw it
    trail,          \* history: the settled dispatch calls a scenario keeps, in order
    services        \* the application's service list (app.addServices)

vars == <<items, activeItemName, registered, files, counts, inflight, last, trail,
          services>>

-----------------------------------------------------------------------------
\* Bounds of the model.

\* total number of backend invocations that reach a storing (Mock) backend
MaxInvocations == 1
\* the same, in the round-trip scenario
MaxRoundTrip == 6
\* number of dispatch calls in flight at the same time
MaxInFlight == 3
\* number of tool executions in the tools scenario
MaxToolRuns == 3
\* number of operations logged in the re-registration scenario
MaxReplaceLog == 4
\* number of dispatch calls issued in the no-retry scenario
MaxOnceCalls == 3
\* number of services an application holds in the installation scenario
MaxServices == 2

-----------------------------------------------------------------------------
\* JavaScript values. Every value carries its runtime type in t.

Undefined == [t |-> "undefined"]
Buf(bytes) == [t |-> "Buffer", v |-> bytes]
Str(s) == [t |-> "string", v |-> s]
Bool(b) == [t |-> "boolean", v |-> b]
Error(m) == [t |-> "Error", message |-> m]

\* Buffer.isBuffer(x)
IsBuffer(x) == x.t = "Buffer"

\* a settled promise / a returned or thrown value
Ok(v) == [ok |-> TRUE, v |-> v]
Err(e) == [ok |-> FALSE, e |-> e]

\* types.ts
UploadOptions(filename, metadata) ==
    [t |-> "options", filename |-> filename, metadata |-> metadata]
UploadResult(url, id, metadata) ==
    [t |-> "UploadResult", url |-> url, id |-> id, metadata |-> metadata]
DeleteResult(success, message) ==
    [t |-> "DeleteResult", success |-> success, message |-> message]

-----------------------------------------------------------------------------
\* The inputs the operations are exercised with.

Names == {"s3", "S3"}
Urls == {"a.txt", "file-1.txt"}
Meta == [t |-> "metadata", author |-> "test"]
\* a byte payload, and a text payload as the README documents for the named
\* form (`data: string | Buffer`)
Buffers == {Buf(<<0, 1, 255>>)}
Texts == {Str("hi")}
Payloads == Buffers \cup Texts
OptionValues == {Undefined, UploadOptions("a.txt", Meta)}

\* provider instances and the class each one is an instance of
Providers == {"mock1", "mock2", "base", "failing"}
NoProvider == "none"
MockProviders == {"mock1", "mock2"}

\* "base" is a bare CDNProvider; "failing" has the overrides of the test
\* suite's FailingProvider classes (upload, download and delete throw)
Kind(p) ==
    CASE p \in MockProviders -> "MockCDNProvider"
      [] p = "failing" -> "FailingProvider"
      [] OTHER -> "CDNProvider"

\* the providers the sequential specification registers
SeqProviders == {"mock1", "base", "failing"}

-----------------------------------------------------------------------------
\* Map helpers (JavaScript Map / keyed record).

EmptyMap == [k \in {} |-> Undefined]
Put(m, k, val) == [x \in (DOMAIN m) \cup {k} |-> IF x = k THEN val ELSE m[x]]
Remove(m, k) == [x \in (DOMAIN m) \ {k} |-> m[x]]

-----------------------------------------------------------------------------
\* KeyedRegistryWithSingleSelection (@tokenring-ai/utility), as the
\* specification describes the registry with single selection.

\* register(name, item): insert or replace the entry at name
Registry_register(its, name, item) == Put(its, name, item)

\* getItemByName(name): the item, or undefined
Registry_getItemByName(name) ==
    IF name \in DOMAIN items THEN [t |-> "provider", v |-> items[name]] ELSE Undefined

\* getActiveItem(): the active item; throws when nothing is active
Registry_getActiveItem ==
    IF activeItemName = <<>>
    THEN Err(Error("No active provider set"))
    ELSE Ok(items[activeItemName[1]])

\* variant: switching clears the old selection and leaves the new one unset
Registry_setActive_ClearsFirst(name) ==
    IF name \in DOMAIN items
    THEN [active |-> IF activeItemName \in {<<>>, <<name>>} THEN <<name>> ELSE <<>>,
          out |-> Ok(Undefined)]
    ELSE [active |-> activeItemName, out |-> Err(Error("Item " \o name \o " not found"))]

\* variant: a selection, once made, is kept
Registry_setActive_KeepsFirst(name) ==
    IF name \in DOMAIN items
    THEN [active |-> IF activeItemName = <<>> THEN <<name>> ELSE activeItemName,
          out |-> Ok(Undefined)]
    ELSE [active |-> activeItemName, out |-> Err(Error("Item " \o name \o " not found"))]

\* variant: the selection is assigned before the name is checked
Registry_setActive_AssignsFirst(name) ==
    [active |-> <<name>>,
     out |-> IF name \in DOMAIN items THEN Ok(Undefined)
             ELSE Err(Error("Item " \o name \o " not found"))]

\* setActive(name): throws for an unregistered name, else selects it
Registry_setActive(name) ==
    IF name \in DOMAIN items
    THEN [active |-> <<name>>, out |-> Ok(Undefined)]
    ELSE [active |-> activeItemName, out |-> Err(Error("Item " \o name \o " not found"))]

-----------------------------------------------------------------------------
\* CDNService: name resolution.

\* the error getCDNByName throws
ProviderNotFound(cdnName) ==
    Error("CDN " \o cdnName
          \o " not found. Please register it first with registerCDN(cdnName, cdnProvider).")

\* variant: the lookup ignores letter case
Lower(name) == IF name = "S3" THEN "s3" ELSE name
getCDNByName_IgnoreCase(cdnName) ==
    LET hits == {k \in DOMAIN items : Lower(k) = Lower(cdnName)}
    IN IF hits = {} THEN Err(ProviderNotFound(cdnName))
       ELSE Ok(items[CHOOSE k \in hits : TRUE])

getCDNByName(cdnName) ==
    LET cdn == Registry_getItemByName(cdnName)
    IN IF cdn.t = "undefined" THEN Err(ProviderNotFound(cdnName)) ELSE Ok(cdn.v)

\* variant: without a selection, any registered provider is used
getActiveProvider_AnyRegistered ==
    IF activeItemName = <<>> /\ DOMAIN items # {}
    THEN Ok(items[CHOOSE k \in DOMAIN items : TRUE])
    ELSE Registry_getActiveItem

getActiveProvider == Registry_getActiveItem

\* what a dispatch method does synchronously: it throws, or it invokes one
\* method of one provider with the given argument list
Throw(e) == [k |-> "throw", e |-> e]
Invoke(p, method, args) == [k |-> "invoke", p |-> p, method |-> method, args |-> args]
On(r, method, args) == IF r.ok THEN Invoke(r.v, method, args) ELSE Throw(r.e)

\* cdn.delete is defined only on classes that override it
HasDelete(p) == Kind(p) \in {"MockCDNProvider", "FailingProvider"}

\* variant: the named path forwards the payload without the options
upload_DropsOptions(cdnNameOrData, dataOrOptions, options) ==
    IF IsBuffer(cdnNameOrData)
    THEN On(getActiveProvider, "upload", <<cdnNameOrData, dataOrOptions>>)
    ELSE On(getCDNByName(cdnNameOrData.v), "upload", <<dataOrOptions, Undefined>>)

upload(cdnNameOrData, dataOrOptions, options) ==
    IF IsBuffer(cdnNameOrData)
    THEN On(getActiveProvider, "upload", <<cdnNameOrData, dataOrOptions>>)
    ELSE On(getCDNByName(cdnNameOrData.v), "upload", <<dataOrOptions, options>>)

\* variant: the capability is tested on whatever the lookup gave
delete_CapabilityFirst(cdnNameOrUrl, url) ==
    IF url = Undefined
    THEN LET cdn == getActiveProvider
         IN IF ~cdn.ok \/ ~HasDelete(cdn.v)
            THEN Throw(Error("Active CDN does not support deletion"))
            ELSE Invoke(cdn.v, "delete", <<cdnNameOrUrl>>)
    ELSE LET cdn == getCDNByName(cdnNameOrUrl.v)
         IN IF ~cdn.ok \/ ~HasDelete(cdn.v)
            THEN Throw(Error("CDN " \o cdnNameOrUrl.v \o " does not support deletion"))
            ELSE Invoke(cdn.v, "delete", <<url>>)

\* variant: a named delete with an unknown name uses the active provider
delete_NamedFallsBack(cdnNameOrUrl, url) ==
    LET cdn == IF url = Undefined \/ ~getCDNByName(cdnNameOrUrl.v).ok
               THEN getActiveProvider ELSE getCDNByName(cdnNameOrUrl.v)
        target == IF url = Undefined THEN cdnNameOrUrl ELSE url
    IN IF ~cdn.ok THEN Throw(cdn.e)
       ELSE IF ~HasDelete(cdn.v)
            THEN Throw(Error("Active CDN does not support deletion"))
            ELSE Invoke(cdn.v, "delete", <<target>>)

\* variant: delete forwards without looking at the capability
delete_NoCapabilityCheck(cdnNameOrUrl, url) ==
    IF url = Undefined
    THEN On(getActiveProvider, "delete", <<cdnNameOrUrl>>)
    ELSE On(getCDNByName(cdnNameOrUrl.v), "delete", <<url>>)

delete(cdnNameOrUrl, url) ==
    IF url = Undefined
    THEN LET cdn == getActiveProvider
         IN IF ~cdn.ok THEN Throw(cdn.e)
            ELSE IF ~HasDelete(cdn.v)
                 THEN Throw(Error("Active CDN does not support deletion"))
                 ELSE Invoke(cdn.v, "delete", <<cdnNameOrUrl>>)
    ELSE LET cdn == getCDNByName(cdnNameOrUrl.v)
         IN IF ~cdn.ok THEN Throw(cdn.e)
            ELSE IF ~HasDelete(cdn.v)
                 THEN Throw(Error("CDN " \o cdnNameOrUrl.v \o " does not support deletion"))
                 ELSE Invoke(cdn.v, "delete", <<url>>)

\* variant: the path is chosen on the type of the first argument
download_ByFirstArgType(cdnNameOrUrl, url) ==
    IF IsBuffer(cdnNameOrUrl)
    THEN On(getActiveProvider, "download", <<cdnNameOrUrl>>)
    ELSE On(getCDNByName(cdnNameOrUrl.v), "download", <<url>>)

\* variant: an unknown name falls back to the active provider
download_FallbackActive(cdnNameOrUrl, url) ==
    IF url = Undefined THEN On(getActiveProvider, "download", <<cdnNameOrUrl>>)
    ELSE IF ~getCDNByName(cdnNameOrUrl.v).ok
         THEN On(getActiveProvider, "download", <<url>>)
         ELSE On(getCDNByName(cdnNameOrUrl.v), "download", <<url>>)

download(cdnNameOrUrl, url) ==
    IF url = Undefined
    THEN On(getActiveProvider, "download", <<cdnNameOrUrl>>)
    ELSE On(getCDNByName(cdnNameOrUrl.v), "download", <<url>>)

\* variant: an unknown name falls back to the active provider
exists_FallbackActive(cdnNameOrUrl, url) ==
    IF url = Undefined THEN On(getActiveProvider, "exists", <<cdnNameOrUrl>>)
    ELSE IF ~getCDNByName(cdnNameOrUrl.v).ok
         THEN On(getActiveProvider, "exists", <<url>>)
         ELSE On(getCDNByName(cdnNameOrUrl.v), "exists", <<url>>)

exists(cdnNameOrUrl, url) ==
    IF url = Undefined
    THEN On(getActiveProvider, "exists", <<cdnNameOrUrl>>)
    ELSE On(getCDNByName(cdnNameOrUrl.v), "exists", <<url>>)

\* variant: a rejection is wrapped in an error of the service
asyncReturn_Wrapped(r) ==
    IF r.ok THEN r ELSE Err(Error("CDN operation failed: " \o r.e.message))

\* variant: a delete result with success = false is raised as an error
asyncReturn_ThrowsOnFailure(r) ==
    IF r.ok /\ r.v.t = "DeleteResult" /\ ~r.v.success THEN Err(Error(r.v.message)) ELSE r

\* `return provider.method(...)` inside the async dispatch method: the
\* caller's promise settles exactly as the provider's promise does
asyncReturn(r) == r

-----------------------------------------------------------------------------
\* Provider backends. Invoking a method runs its synchronous part: it
\* returns the backend's new files and counters and either the settled
\* promise (st = "settled", res) or the request it is suspended on
\* (st = "fetch", req). A default download that got a success response is
\* suspended a second time, on the read of the body (st = "body").

ZeroCounts == [upload |-> 0, download |-> 0, delete |-> 0, exists |-> 0]

Settled(f, c, r) == [files |-> f, counts |-> c, st |-> "settled", res |-> r, req |-> Undefined]
Fetching(method, url) ==
    [files |-> files, counts |-> counts, st |-> "fetch", res |-> Undefined,
     req |-> [t |-> "request", method |-> method, url |-> url]]

\* JavaScript truthiness of a stored value (`if (!data)`)
Falsy(x) == x.t = "undefined" \/ (x.t = "string" /\ x.v = "")

\* options?.filename || `file-${this.uploadCount}.txt`
Mock_url(options, uploadCount) ==
    IF options.t = "options" /\ options.filename # ""
    THEN options.filename
    ELSE "file-" \o ToString(uploadCount) \o ".txt"

\* variant: the instances share one files map
Mock_upload_SharedFiles(p, data, options) ==
    LET n == counts[p].upload + 1
        url == Mock_url(options, n)
        metadata == IF options.t = "options" THEN options.metadata ELSE Undefined
    IN Settled([q \in DOMAIN files |-> Put(files[q], url, data)],
               [counts EXCEPT ![p].upload = n],
               Ok(UploadResult(url, url, metadata)))

Mock_upload(p, data, options) ==
    LET n == counts[p].upload + 1
        url == Mock_url(options, n)
        metadata == IF options.t = "options" THEN options.metadata ELSE Undefined
    IN Settled([files EXCEPT ![p] = Put(@, url, data)],
               [counts EXCEPT ![p].upload = n],
               Ok(UploadResult(url, url, metadata)))

Mock_download(p, url) ==
    LET c == [counts EXCEPT ![p].download = @ + 1]
    IN IF url.v \in DOMAIN files[p] /\ ~Falsy(files[p][url.v])
       THEN Settled(files, c, Ok(files[p][url.v]))
       ELSE Settled(files, c, Err(Error("File not found: " \o url.v)))

\* variant: delete reports success and keeps the object
Mock_delete_KeepsFile(p, url) ==
    LET c == [counts EXCEPT ![p].delete = @ + 1]
        has == url.v \in DOMAIN files[p]
    IN IF has
       THEN Settled(files, c, Ok(DeleteResult(TRUE, "File deleted successfully")))
       ELSE Settled(files, c, Ok(DeleteResult(FALSE, "File not found")))

Mock_delete(p, url) ==
    LET c == [counts EXCEPT ![p].delete = @ + 1]
        has == url.v \in DOMAIN files[p]
    IN IF has
       THEN Settled([files EXCEPT ![p] = Remove(@, url.v)], c,
                    Ok(DeleteResult(TRUE, "File deleted successfully")))
       ELSE Settled(files, c, Ok(DeleteResult(FALSE, "File not found")))

Mock_exists(p, url) ==
    Settled(files, [counts EXCEPT ![p].exists = @ + 1],
            Ok(Bool(url.v \in DOMAIN files[p])))

\* reset(): the four counters back to 0, the files cleared
Mock_reset(p) ==
    Settled([files EXCEPT ![p] = EmptyMap], [counts EXCEPT ![p] = ZeroCounts], Ok(Undefined))

\* variant: the base upload resolves without doing anything
CDNResource_upload_NoOp ==
    Settled(files, counts, Ok(UploadResult("", "", Undefined)))

\* CDNResource / CDNProvider base class
CDNResource_upload ==
    Settled(files, counts, Err(Error("Method 'upload' must be implemented by subclasses")))

\* FailingProvider classes of the test suite
Failing_upload == Settled(files, counts, Err(Error("Upload failed")))
Failing_download == Settled(files, counts, Err(Error("Download failed")))
Failing_delete == Settled(files, counts, Err(Error("Delete failed")))

\* the responses a fetch can end with; bodyErr is the error the read of the
\* body ends with, Undefined when the body arrives
Response(ok, statusText, body) ==
    [k |-> "response", ok |-> ok, statusText |-> statusText, body |-> body,
     e |-> Undefined, bodyErr |-> Undefined]
BodyFails(response, e) == [response EXCEPT !.bodyErr = e]
Rejected(e) ==
    [k |-> "rejected", ok |-> FALSE, statusText |-> "", body |-> <<>>, e |-> e,
     bodyErr |-> Undefined]
NoResponse ==
    [k |-> "none", ok |-> FALSE, statusText |-> "", body |-> <<>>, e |-> Undefined,
     bodyErr |-> Undefined]
Responses ==
    {Response(TRUE, "OK", <<0, 1, 255>>),
     BodyFails(Response(TRUE, "OK", <<>>), Error("Body read failed")),
     Response(FALSE, "Not Found", <<>>),
     Response(FALSE, "Forbidden", <<60>>),
     Rejected(Error("Network error"))}

\* await response.arrayBuffer()
arrayBuffer(response) ==
    IF response.bodyErr = Undefined THEN Ok(response.body) ELSE Err(response.bodyErr)

\* variant: the status text is dropped from the message
CDNResource_download_NoStatus(response) ==
    IF response.k = "rejected" THEN Err(response.e)
    ELSE IF ~response.ok THEN Err(Error("Failed to download file"))
         ELSE IF arrayBuffer(response).ok THEN Ok(Buf(arrayBuffer(response).v))
              ELSE arrayBuffer(response)

\* default download, resumed with the outcome of `await fetch(url)` and,
\* after a success response, with the outcome of `await response.arrayBuffer()`
CDNResource_download(response) ==
    IF response.k = "rejected" THEN Err(response.e)
    ELSE IF ~response.ok
         THEN Err(Error("Failed to download file: " \o response.statusText))
         ELSE IF arrayBuffer(response).ok THEN Ok(Buf(arrayBuffer(response).v))
              ELSE arrayBuffer(response)

\* variant: no try/catch around the request
CDNResource_exists_NoCatch(response) ==
    IF response.k = "rejected" THEN Err(response.e) ELSE Ok(Bool(response.ok))

\* default exists, resumed with the outcome of `await fetch(url, {method: 'HEAD'})`
CDNResource_exists(response) ==
    IF response.k = "rejected" THEN Ok(Bool(FALSE)) ELSE Ok(Bool(response.ok))

\* variant: download and exists always run the base class's implementation
ProviderInvoke_IgnoresOverride(p, method, args) ==
    CASE method = "download" -> Fetching("GET", args[1].v)
      [] method = "exists" -> Fetching("HEAD", args[1].v)
      [] method = "upload" ->
            IF Kind(p) = "MockCDNProvider" THEN Mock_upload(p, args[1], args[2])
            ELSE IF Kind(p) = "FailingProvider" THEN Failing_upload
            ELSE CDNResource_upload
      [] OTHER ->
            IF Kind(p) = "MockCDNProvider" THEN Mock_delete(p, args[1])
            ELSE IF Kind(p) = "FailingProvider" THEN Failing_delete
            ELSE Settled(files, counts, Err(Error("cdn.delete is not a function")))

\* variant: a download that fails is tried a second time
ProviderInvoke_RetryDownload(p, method, args) ==
    IF Kind(p) = "MockCDNProvider"
    THEN CASE method = "upload" -> Mock_upload(p, args[1], args[2])
           [] method = "download" ->
                IF Mock_download(p, args[1]).res.ok THEN Mock_download(p, args[1])
                ELSE Settled(files, [counts EXCEPT ![p].download = @ + 2],
                             Mock_download(p, args[1]).res)
           [] method = "delete" -> Mock_delete(p, args[1])
           [] OTHER -> Mock_exists(p, args[1])
    ELSE IF Kind(p) = "FailingProvider"
    THEN CASE method = "upload" -> Failing_upload
           [] method = "download" -> Failing_download
           [] method = "delete" -> Failing_delete
           [] OTHER -> Fetching("HEAD", args[1].v)
    ELSE CASE method = "upload" -> CDNResource_upload
           [] method = "download" -> Fetching("GET", args[1].v)
           [] method = "exists" -> Fetching("HEAD", args[1].v)
           [] OTHER -> Settled(files, counts, Err(Error("cdn.delete is not a function")))

\* method dispatch on the provider's class
ProviderInvoke(p, method, args) ==
    IF Kind(p) = "MockCDNProvider"
    THEN CASE method = "upload" -> Mock_upload(p, args[1], args[2])
           [] method = "download" -> Mock_download(p, args[1])
           [] method = "delete" -> Mock_delete(p, args[1])
           [] OTHER -> Mock_exists(p, args[1])
    ELSE IF Kind(p) = "FailingProvider"
    THEN CASE method = "upload" -> Failing_upload
           [] method = "download" -> Failing_download
           [] method = "delete" -> Failing_delete
           [] OTHER -> Fetching("HEAD", args[1].v)
    ELSE CASE method = "upload" -> CDNResource_upload
           [] method = "download" -> Fetching("GET", args[1].v)
           [] method = "exists" -> Fetching("HEAD", args[1].v)
           [] OTHER -> Settled(files, counts, Err(Error("cdn.delete is not a function")))

\* resuming a suspended default method with the fetch outcome
ProviderResume(req, response) ==
    IF req.method = "HEAD" THEN CDNResource_exists(response) ELSE CDNResource_download(response)

\* the default download goes on to `await response.arrayBuffer()`
AwaitsBody(req, response) ==
    req.method = "GET" /\ response.k = "response" /\ response.ok

-----------------------------------------------------------------------------
\* Calls as a caller writes them, and the positional arguments they pass.

\* form "active" omits the provider name, form "named" passes it first
\* (a string in first position is a provider name, so the name-omitting form
\* of upload is written with a Buffer)
UploadCalls ==
    {[op |-> "upload", form |-> "named", name |-> n, url |-> "", data |-> d, options |-> o] :
        n \in Names, d \in Payloads, o \in OptionValues}
    \cup
    {[op |-> "upload", form |-> "active", name |-> "", url |-> "", data |-> d, options |-> o] :
        d \in Buffers, o \in OptionValues}
UrlCalls ==
    {[op |-> m, form |-> f, name |-> n, url |-> u, data |-> Undefined, options |-> Undefined] :
        m \in {"download", "delete", "exists"}, f \in {"active", "named"},
        n \in Names, u \in Urls}
Normal(c) == IF c.form = "active" THEN [c EXCEPT !.name = ""] ELSE c
Calls == {Normal(c) : c \in UploadCalls \cup UrlCalls}

NoCall == [op |-> "none", form |-> "", name |-> "", url |-> "", data |-> Undefined,
           options |-> Undefined]

Args(c) ==
    IF c.op = "upload"
    THEN IF c.form = "active" THEN <<c.data, c.options, Undefined>>
         ELSE <<Str(c.name), c.data, c.options>>
    ELSE IF c.form = "active" THEN <<Str(c.url), Undefined>>
         ELSE <<Str(c.name), Str(c.url)>>

Dispatch(c) ==
    LET a == Args(c)
    IN CASE c.op = "upload" -> upload(a[1], a[2], a[3])
         [] c.op = "delete" -> delete(a[1], a[2])
         [] c.op = "download" -> download(a[1], a[2])
         [] OTHER -> exists(a[1], a[2])

-----------------------------------------------------------------------------
\* State machine.

CountOf(p) == counts[p].upload + counts[p].download + counts[p].delete + counts[p].exists
TotalInvocations == CountOf("mock1") + CountOf("mock2")

\* a settled operation: the call, the provider it was forwarded to (if any),
\* the arguments that provider received, the request a default method
\* issued and the response it got, the provider's own outcome and the
\* outcome the caller observed
Observed(c, p, invoked, recv, req, response, backend, out) ==
    [call |-> c, p |-> p, invoked |-> invoked, recv |-> recv, req |-> req,
     response |-> response, backend |-> backend, out |-> out]
NoLast == Observed(NoCall, NoProvider, FALSE, <<>>, Undefined, NoResponse, Undefined, Undefined)

RegistryCall(op, name) ==
    [op |-> op, form |-> "", name |-> name, url |-> "", data |-> Undefined,
     options |-> Undefined]
RegistryObserved(op, name, p, out) ==
    Observed(RegistryCall(op, name), p, FALSE, <<>>, Undefined, NoResponse, Undefined, out)

Init ==
    /\ items = EmptyMap
    /\ activeItemName = <<>>
    /\ registered = EmptyMap
    /\ files = [p \in MockProviders |-> EmptyMap]
    /\ counts = [p \in MockProviders |-> ZeroCounts]
    /\ inflight = <<>>
    /\ last = NoLast
    /\ trail = <<>>
    /\ services = <<>>

\* variant: the first provider registered becomes the active one
RegisterProvider_ActivatesFirst(name, p) ==
    /\ items' = Registry_register(items, name, p)
    /\ registered' = Put(registered, name, p)
    /\ activeItemName' = IF activeItemName = <<>> THEN <<name>> ELSE activeItemName
    /\ last' = RegistryObserved("registerProvider", name, p, Ok(Undefined))
    /\ UNCHANGED <<files, counts, inflight>>

\* variant: registering starts a new map
RegisterProvider_Resets(name, p) ==
    /\ items' = Registry_register(EmptyMap, name, p)
    /\ registered' = Put(registered, name, p)
    /\ last' = RegistryObserved("registerProvider", name, p, Ok(Undefined))
    /\ UNCHANGED <<activeItemName, files, counts, inflight>>

\* variant: a name that is already registered keeps its first provider
RegisterProvider_KeepsFirst(name, p) ==
    /\ items' = IF name \in DOMAIN items THEN items ELSE Registry_register(items, name, p)
    /\ registered' = Put(registered, name, p)
    /\ last' = RegistryObserved("registerProvider", name, p, Ok(Undefined))
    /\ UNCHANGED <<activeItemName, files, counts, inflight>>

\* cdnService.registerProvider(name, provider)
RegisterProvider(name, p) ==
    /\ items' = Registry_register(items, name, p)
    /\ registered' = Put(registered, name, p)
    /\ last' = RegistryObserved("registerProvider", name, p, Ok(Undefined))
    /\ UNCHANGED <<activeItemName, files, counts, inflight>>

\* setActive(name) of the registry with single selection
SetActiveProvider(name) ==
    LET r == Registry_setActive(name)
    IN /\ activeItemName' = r.active
       /\ last' = RegistryObserved("setActiveProvider", name, NoProvider, r.out)
       /\ UNCHANGED <<items, registered, files, counts, inflight>>

\* provider.reset() of a storing backend (test helper)
ResetProvider(p) ==
    LET b == Mock_reset(p)
    IN /\ files' = b.files
       /\ counts' = b.counts
       /\ last' = RegistryObserved("reset", "", p, b.res)
       /\ UNCHANGED <<items, activeItemName, registered, inflight>>

\* cdnService.getCDNByName(name), called directly
GetCDNByName(name) ==
    LET r == getCDNByName(name)
    IN /\ last' = RegistryObserved("getCDNByName", name,
                                   IF r.ok THEN r.v ELSE NoProvider, r)
       /\ UNCHANGED <<items, activeItemName, registered, files, counts, inflight>>

\* variant: a named call makes the provider it names the active one
StartCallUpTo_SelectsNamed(c, max) ==
    LET d == Dispatch(c)
    IN /\ last' = NoLast
       /\ activeItemName' = IF c.form = "named" /\ c.name \in DOMAIN items
                             THEN <<c.name>> ELSE activeItemName
       /\ UNCHANGED <<items, registered>>
       /\ IF d.k = "throw"
          THEN /\ inflight' = Append(inflight,
                     [call |-> c, p |-> NoProvider, invoked |-> FALSE, recv |-> <<>>,
                      st |-> "thrown", res |-> Err(d.e), req |-> Undefined,
                      response |-> NoResponse])
               /\ UNCHANGED <<files, counts>>
          ELSE LET b == ProviderInvoke(d.p, d.method, d.args)
               IN /\ (d.p \in MockProviders => TotalInvocations < max)
                  /\ files' = b.files
                  /\ counts' = b.counts
                  /\ inflight' = Append(inflight,
                        [call |-> c, p |-> d.p, invoked |-> TRUE, recv |-> d.args,
                         st |-> b.st, res |-> b.res, req |-> b.req,
                         response |-> NoResponse])

\* a dispatch call up to its first suspension: resolution, the capability
\* check of delete, and the synchronous part of the provider's method
StartCallUpTo(c, max) ==
    LET d == Dispatch(c)
    IN /\ last' = NoLast
       /\ UNCHANGED <<items, activeItemName, registered>>
       /\ IF d.k = "throw"
          THEN /\ inflight' = Append(inflight,
                     [call |-> c, p |-> NoProvider, invoked |-> FALSE, recv |-> <<>>,
                      st |-> "thrown", res |-> Err(d.e), req |-> Undefined,
                      response |-> NoResponse])
               /\ UNCHANGED <<files, counts>>
          ELSE LET b == ProviderInvoke(d.p, d.method, d.args)
               IN /\ (d.p \in MockProviders => TotalInvocations < max)
                  /\ files' = b.files
                  /\ counts' = b.counts
                  /\ inflight' = Append(inflight,
                        [call |-> c, p |-> d.p, invoked |-> TRUE, recv |-> d.args,
                         st |-> b.st, res |-> b.res, req |-> b.req,
                         response |-> NoResponse])

StartCall(c) == StartCallUpTo(c, MaxInvocations)

\* the i-th call in flight, suspended in `await fetch(url)` of the default
\* download, gets a success response and goes on to read the body
ResumeCall(i) ==
    LET pc == inflight[i]
    IN /\ pc.st = "fetch"
       /\ \E response \in {r \in Responses : AwaitsBody(pc.req, r)} :
            inflight' = [inflight EXCEPT ![i] = [pc EXCEPT !.st = "body",
                                                          !.response = response]]
       /\ UNCHANGED <<items, activeItemName, registered, files, counts, last>>

\* what the last suspension of a call in flight can end with
PendingOutcomes(pc) ==
    IF pc.st = "fetch" THEN {r \in Responses : ~AwaitsBody(pc.req, r)}
    ELSE IF pc.st = "body" THEN {pc.response}
    ELSE {NoResponse}

\* variant: the provider is looked up again when the call resumes
CompleteCall_ResolvesLate(i) ==
    LET pc == inflight[i]
        rest == SubSeq(inflight, 1, i - 1) \o SubSeq(inflight, i + 1, Len(inflight))
        d == Dispatch(pc.call)
        late == d.k = "invoke" /\ pc.st \in {"fetch", "body"} /\ d.p \in MockProviders
    IN /\ inflight' = rest
       /\ UNCHANGED <<items, activeItemName, registered, files, counts>>
       /\ \E response \in PendingOutcomes(pc) :
            LET backend == IF late THEN ProviderInvoke(d.p, d.method, d.args).res
                           ELSE IF pc.st \in {"fetch", "body"}
                                THEN ProviderResume(pc.req, response)
                           ELSE IF pc.st = "settled" THEN pc.res ELSE Undefined
                out == IF pc.st = "thrown" THEN pc.res ELSE asyncReturn(backend)
            IN last' = Observed(pc.call, IF late THEN d.p ELSE pc.p, pc.invoked, pc.recv,
                                pc.req, response, backend, out)

\* the caller observes the settled promise of the i-th call in flight
CompleteCall(i) ==
    LET pc == inflight[i]
        rest == SubSeq(inflight, 1, i - 1) \o SubSeq(inflight, i + 1, Len(inflight))
    IN /\ inflight' = rest
       /\ UNCHANGED <<items, activeItemName, registered, files, counts>>
       /\ \E response \in PendingOutcomes(pc) :
            LET backend == IF pc.st \in {"fetch", "body"}
                           THEN ProviderResume(pc.req, response)
                           ELSE IF pc.st = "settled" THEN pc.res ELSE Undefined
                out == IF pc.st = "thrown" THEN pc.res ELSE asyncReturn(backend)
            IN last' = Observed(pc.call, pc.p, pc.invoked, pc.recv, pc.req, response,
                                backend, out)

\* One thread of control that awaits each call before its next step.
Idle == inflight = <<>>
AwaitedCall == Idle /\ UNCHANGED <<trail, services>> /\ \E c \in Calls : StartCall(c)
Resume == UNCHANGED <<trail, services>> /\ \E i \in 1..Len(inflight) : ResumeCall(i)
Settle == UNCHANGED <<trail, services>> /\ \E i \in 1..Len(inflight) : CompleteCall(i)
Reset == Idle /\ UNCHANGED <<trail, services>> /\ \E p \in MockProviders : ResetProvider(p)
Register ==
    Idle /\ UNCHANGED <<trail, services>> /\ \E name \in Names, p \in SeqProviders : RegisterProvider(name, p)
SetActive == Idle /\ UNCHANGED <<trail, services>> /\ \E name \in Names : SetActiveProvider(name)
Lookup == Idle /\ UNCHANGED <<trail, services>> /\ \E name \in Names : GetCDNByName(name)

Next == Register \/ SetActive \/ Lookup \/ Reset \/ AwaitedCall \/ Resume \/ Settle

Spec == Init /\ [][Next]_vars

\* The same caller, who also writes upload with a text value in first
\* position: upload('hi', options).
TextFirstCalls ==
    {[op |-> "upload", form |-> "active", name |-> "", url |-> "", data |-> d, options |-> o] :
        d \in Texts, o \in OptionValues}
AwaitedAnyCall == Idle /\ UNCHANGED <<trail, services>> /\ \E c \in Calls \cup TextFirstCalls : StartCall(c)

NextOverload == Register \/ SetActive \/ Reset \/ AwaitedAnyCall \/ Resume \/ Settle

SpecOverload == Init /\ [][NextOverload]_vars

\* Round trip: one storing backend registered under "s3", and a caller who
\* uploads either of two payloads under one filename and downloads, probes
\* and deletes that url, awaiting each call; the trail keeps what it saw.
RoundTripName == "s3"
RoundTripUrl == "a.txt"
RoundTripData == {Buf(<<0, 1, 255>>), Buf(<<7>>)}
RoundTripCalls ==
    {[op |-> "upload", form |-> "named", name |-> RoundTripName, url |-> "", data |-> d,
      options |-> UploadOptions(RoundTripUrl, Meta)] : d \in RoundTripData}
    \cup
    {[op |-> m, form |-> "named", name |-> RoundTripName, url |-> RoundTripUrl,
      data |-> Undefined, options |-> Undefined] : m \in {"download", "delete", "exists"}}

RoundTripRegister ==
    /\ Idle /\ items = EmptyMap
    /\ RegisterProvider(RoundTripName, "mock1")
    /\ UNCHANGED <<trail, services>>
RoundTripCall ==
    /\ Idle /\ RoundTripName \in DOMAIN items
    /\ UNCHANGED <<trail, services>>
    /\ \E c \in RoundTripCalls : StartCallUpTo(c, MaxRoundTrip)
RoundTripSettle ==
    /\ \E i \in 1..Len(inflight) : CompleteCall(i)
    /\ trail' = Append(trail, last') /\ UNCHANGED services

NextRoundTrip == RoundTripRegister \/ RoundTripCall \/ RoundTripSettle

SpecRoundTrip == Init /\ [][NextRoundTrip]_vars

\* Concurrent callers: two storing backends registered under "s3" and "S3",
\* and a fixed set of calls, each issued once, that start while others are in
\* flight and whose promises are observed in any order.
ConcurrentUpload(name, bytes, filename) ==
    [op |-> "upload", form |-> "named", name |-> name, url |-> "", data |-> Buf(bytes),
     options |-> UploadOptions(filename, Undefined)]
ConcurrentUrlCall(m, name, url) ==
    [op |-> m, form |-> "named", name |-> name, url |-> url, data |-> Undefined,
     options |-> Undefined]
ConcurrentUploads ==
    {ConcurrentUpload("s3", <<1>>, "c1.txt"),
     ConcurrentUpload("s3", <<2>>, "c2.txt"),
     ConcurrentUpload("s3", <<3>>, "c3.txt")}
ConcurrentCalls ==
    ConcurrentUploads
    \cup {ConcurrentUpload("S3", <<2>>, "c1.txt"),
          ConcurrentUrlCall("delete", "S3", "c1.txt"),
          ConcurrentUrlCall("download", "S3", "c1.txt"),
          ConcurrentUrlCall("download", "cdn3", "c1.txt")}

Issued == {inflight[i].call : i \in 1..Len(inflight)} \cup {trail[j].call : j \in 1..Len(trail)}

ConcurrentRegister ==
    /\ Idle /\ trail = <<>>
    /\ \E r \in {<<"s3", "mock1">>, <<"S3", "mock2">>} :
          r[1] \notin DOMAIN items /\ RegisterProvider(r[1], r[2])
    /\ UNCHANGED <<trail, services>>
ConcurrentStart ==
    /\ DOMAIN items = {"s3", "S3"}
    /\ Len(inflight) < MaxInFlight
    /\ UNCHANGED <<trail, services>>
    /\ \E c \in ConcurrentCalls \ Issued : StartCallUpTo(c, Cardinality(ConcurrentCalls))
ConcurrentSettle ==
    /\ \E i \in 1..Len(inflight) : CompleteCall(i)
    /\ trail' = Append(trail, last') /\ UNCHANGED services

NextConcurrent == ConcurrentRegister \/ ConcurrentStart \/ ConcurrentSettle

SpecConcurrent == Init /\ [][NextConcurrent]_vars

\* Switching the selection at run time: three providers are registered, the
\* selection moves between "s3" and "S3" at any moment, and name-omitting
\* calls, each issued once after a first selection, are in flight meanwhile.
SwitchNames == {"s3", "S3"}
SwitchSetup == <<<<"s3", "mock1">>, <<"S3", "base">>, <<"cdn3", "failing">>>>
SwitchCalls ==
    {[op |-> "upload", form |-> "active", name |-> "", url |-> "",
      data |-> Buf(<<0, 1, 255>>), options |-> UploadOptions("a.txt", Meta)]}
    \cup
    {[op |-> m, form |-> "active", name |-> "", url |-> "a.txt", data |-> Undefined,
      options |-> Undefined] : m \in {"download", "delete", "exists"}}

SwitchRegister ==
    /\ Idle /\ trail = <<>>
    /\ Cardinality(DOMAIN items) < Len(SwitchSetup)
    /\ LET r == SwitchSetup[Cardinality(DOMAIN items) + 1]
       IN RegisterProvider(r[1], r[2])
    /\ UNCHANGED <<trail, services>>
SwitchSetActive ==
    /\ Cardinality(DOMAIN items) = Len(SwitchSetup)
    /\ UNCHANGED <<trail, services>>
    /\ \E name \in SwitchNames : SetActiveProvider(name)
SwitchStart ==
    /\ activeItemName # <<>>
    /\ Len(inflight) < MaxInFlight
    /\ UNCHANGED <<trail, services>>
    /\ \E c \in SwitchCalls \ Issued : StartCallUpTo(c, Cardinality(SwitchCalls))
SwitchSettle ==
    /\ \E i \in 1..Len(inflight) : CompleteCall(i)
    /\ trail' = Append(trail, last') /\ UNCHANGED services

NextSwitch ==
    SwitchRegister \/ SwitchSetActive \/ SwitchStart \/ Resume \/ SwitchSettle

SpecSwitch == Init /\ [][NextSwitch]_vars

\* Re-pointing at run time: "s3" starts on a provider with the default HTTP
\* behaviours and "S3" on a storing one; while download and exists calls,
\* each issued once, are suspended, "s3" is registered again with another
\* provider and the selection moves.
RebindSetup == <<<<"s3", "base">>, <<"S3", "mock2">>>>
RebindProviders == {"base", "mock1"}
RebindCalls ==
    {[op |-> m, form |-> "named", name |-> "s3", url |-> "a.txt", data |-> Undefined,
      options |-> Undefined] : m \in {"download", "exists"}}
    \cup
    {[op |-> "download", form |-> "active", name |-> "", url |-> "a.txt", data |-> Undefined,
      options |-> Undefined]}

RebindRegister ==
    /\ Idle /\ trail = <<>>
    /\ Cardinality(DOMAIN items) < Len(RebindSetup)
    /\ LET r == RebindSetup[Cardinality(DOMAIN items) + 1]
       IN RegisterProvider(r[1], r[2])
    /\ UNCHANGED <<trail, services>>
RebindName ==
    /\ Cardinality(DOMAIN items) = Len(RebindSetup)
    /\ UNCHANGED <<trail, services>>
    /\ \E p \in RebindProviders : RegisterProvider("s3", p)
RebindSetActive ==
    /\ Cardinality(DOMAIN items) = Len(RebindSetup)
    /\ UNCHANGED <<trail, services>>
    /\ \E name \in DOMAIN items : SetActiveProvider(name)
RebindStart ==
    /\ Cardinality(DOMAIN items) = Len(RebindSetup)
    /\ Len(inflight) < MaxInFlight
    /\ UNCHANGED <<trail, services>>
    /\ \E c \in RebindCalls \ Issued : StartCallUpTo(c, Cardinality(RebindCalls))
RebindSettle ==
    /\ \E i \in 1..Len(inflight) : CompleteCall(i)
    /\ trail' = Append(trail, last') /\ UNCHANGED services

NextRebind ==
    \/ RebindRegister \/ RebindName \/ RebindSetActive
    \/ RebindStart \/ Resume \/ RebindSettle

SpecRebind == Init /\ [][NextRebind]_vars

\* Re-registration: two storing backends are registered, and registered
\* again, under two names in any order, the selection is moved, and exists
\* and download calls of both forms are awaited in between; the trail logs
\* every operation, registrations and selections included.
ReplaceCalls ==
    {ConcurrentUrlCall(m, n, "a.txt") : m \in {"download", "exists"}, n \in Names}
    \cup
    {[op |-> m, form |-> "active", name |-> "", url |-> "a.txt", data |-> Undefined,
      options |-> Undefined] : m \in {"download", "exists"}}

ReplaceRegister ==
    /\ Idle /\ Len(trail) < MaxReplaceLog
    /\ \E name \in Names, p \in MockProviders : RegisterProvider(name, p)
    /\ trail' = Append(trail, last') /\ UNCHANGED services
ReplaceSetActive ==
    /\ Idle /\ Len(trail) < MaxReplaceLog
    /\ \E name \in Names : SetActiveProvider(name)
    /\ trail' = Append(trail, last') /\ UNCHANGED services
ReplaceStart ==
    /\ Idle /\ Len(trail) < MaxReplaceLog
    /\ UNCHANGED <<trail, services>>
    /\ \E c \in ReplaceCalls : StartCallUpTo(c, MaxReplaceLog)
ReplaceSettle ==
    /\ \E i \in 1..Len(inflight) : CompleteCall(i)
    /\ trail' = Append(trail, last') /\ UNCHANGED services

NextReplace == ReplaceRegister \/ ReplaceSetActive \/ ReplaceStart \/ ReplaceSettle

SpecReplace == Init /\ [][NextReplace]_vars

\* No retry: "s3" is a storing backend, "S3" a backend with the default HTTP
\* behaviours and no delete, "cdn3" is not registered. The selection is made,
\* or left unset, before the first call; download, delete and exists calls of
\* both forms, each issued once, run concurrently.
OnceSetup == <<<<"s3", "mock1">>, <<"S3", "base">>>>
OnceOperations == {"download", "delete", "exists"}
OnceCalls ==
    {ConcurrentUrlCall(m, n, "a.txt") : m \in OnceOperations, n \in {"s3", "S3", "cdn3"}}
    \cup
    {[op |-> m, form |-> "active", name |-> "", url |-> "a.txt", data |-> Undefined,
      options |-> Undefined] : m \in OnceOperations}

OnceRegister ==
    /\ Idle /\ trail = <<>>
    /\ Cardinality(DOMAIN items) < Len(OnceSetup)
    /\ LET r == OnceSetup[Cardinality(DOMAIN items) + 1]
       IN RegisterProvider(r[1], r[2])
    /\ UNCHANGED <<trail, services>>
OnceSetActive ==
    /\ Cardinality(DOMAIN items) = Len(OnceSetup)
    /\ Issued = {}
    /\ UNCHANGED <<trail, services>>
    /\ \E name \in DOMAIN items : SetActiveProvider(name)
OnceStart ==
    /\ Cardinality(DOMAIN items) = Len(OnceSetup)
    /\ Len(inflight) < MaxInFlight
    /\ Cardinality(Issued) < MaxOnceCalls
    /\ UNCHANGED <<trail, services>>
    /\ \E c \in OnceCalls \ Issued : StartCallUpTo(c, Cardinality(OnceCalls))
OnceSettle ==
    /\ \E i \in 1..Len(inflight) : CompleteCall(i)
    /\ trail' = Append(trail, last') /\ UNCHANGED services

NextOnce == OnceRegister \/ OnceSetActive \/ OnceStart \/ Resume \/ OnceSettle

SpecOnce == Init /\ [][NextOnce]_vars

-----------------------------------------------------------------------------
\* Tool wrappers (tools/upload.ts, tools/delete.ts). execute either throws
\* or makes one call of the service and returns what that call returns.

UploadToolName == "cdn/upload"
DeleteToolName == "cdn/delete"

\* Buffer.from(data, 'base64') on the payloads of the scenario
Base64Decode(text) ==
    CASE text = "AAH/" -> <<0, 1, 255>>
      [] text = "Bw==" -> <<7>>
      [] OTHER -> <<>>

ToolThrow(e) == [k |-> "throw", e |-> e, c |-> NoCall]
ToolCall(c) == [k |-> "call", e |-> Undefined, c |-> c]

\* a service as the registry holds it, by type
ServiceHandle(type) == [t |-> type]

\* registry.requireFirstServiceByType(Type) of @token-ring/registry: the first
\* service of the type; the call fails when the registry holds none
requireFirstServiceByType(registry, type) ==
    IF \E i \in 1..Len(registry) : registry[i].t = type
    THEN Ok(ServiceHandle(type))
    ELSE Err(Error("Cannot find a service of type " \o type))

\* `const chatService = ...; const cdnService = ...`: the first lookup that
\* fails ends execute
Tool_services(registry) ==
    LET chatService == requireFirstServiceByType(registry, "ChatService")
        cdnService == requireFirstServiceByType(registry, "CDNService")
    IN IF ~chatService.ok THEN chatService ELSE cdnService

\* variant: only a missing data parameter is refused
Tool_upload_UndefinedOnly(params, registry) ==
    IF ~Tool_services(registry).ok THEN ToolThrow(Tool_services(registry).e)
    ELSE IF params.data = Undefined
    THEN ToolThrow(Error("[" \o UploadToolName \o "] 'data' parameter is required"))
    ELSE ToolCall([op |-> "upload", form |-> "active", name |-> "", url |-> "",
                   data |-> Buf(Base64Decode(params.data.v)),
                   options |-> UploadOptions(params.filename, params.metadata)])

\* tools/upload.ts execute, up to the call of cdnService.upload
Tool_upload(params, registry) ==
    IF ~Tool_services(registry).ok THEN ToolThrow(Tool_services(registry).e)
    ELSE IF Falsy(params.data)
    THEN ToolThrow(Error("[" \o UploadToolName \o "] 'data' parameter is required"))
    ELSE ToolCall([op |-> "upload", form |-> "active", name |-> "", url |-> "",
                   data |-> Buf(Base64Decode(params.data.v)),
                   options |-> UploadOptions(params.filename, params.metadata)])

\* tools/delete.ts execute, up to the call of cdnService.delete
Tool_delete(params, registry) ==
    IF ~Tool_services(registry).ok THEN ToolThrow(Tool_services(registry).e)
    ELSE IF Falsy(params.url)
    THEN ToolThrow(Error("[" \o DeleteToolName \o "] 'url' parameter is required"))
    ELSE ToolCall([op |-> "delete", form |-> "active", name |-> "", url |-> params.url.v,
                   data |-> Undefined, options |-> Undefined])

\* `const result = await cdnService.<op>(...); return result`
Tool_return(result) == result

ToolParams ==
    {[tool |-> UploadToolName, data |-> d, filename |-> "a.txt", metadata |-> Undefined,
      url |-> Undefined] : d \in {Undefined, Str(""), Str("AAH/")}}
    \cup
    {[tool |-> DeleteToolName, data |-> Undefined, filename |-> "", metadata |-> Undefined,
      url |-> u] : u \in {Undefined, Str(""), Str("a.txt")}}
Tool_execute(params, registry) ==
    IF params.tool = UploadToolName THEN Tool_upload(params, registry)
    ELSE Tool_delete(params, registry)

\* one execution as the tool's caller saw it: the parameters and the
\* registry it passed, the service call the tool made (NoLast if none) and
\* the tool's own outcome
ToolRun(params, registry, service, out) ==
    [params |-> params, registry |-> registry, service |-> service, out |-> out]

\* the registries an application passes: with either service, or with both
ToolsRegistries ==
    {<<ServiceHandle("ChatService")>>,
     <<ServiceHandle("CDNService")>>,
     <<ServiceHandle("ChatService"), ServiceHandle("CDNService")>>}
\* the application installs its services; before that, the registry is empty
ToolsInstall ==
    /\ Idle /\ services = <<>>
    /\ services' \in ToolsRegistries
    /\ UNCHANGED <<items, activeItemName, registered, files, counts, inflight, last, trail>>

ToolsSetup == <<<<"s3", "mock1">>, <<"S3", "base">>>>
ToolsRegister ==
    /\ Idle /\ trail = <<>>
    /\ Cardinality(DOMAIN items) < Len(ToolsSetup)
    /\ LET r == ToolsSetup[Cardinality(DOMAIN items) + 1]
       IN RegisterProvider(r[1], r[2])
    /\ UNCHANGED <<trail, services>>
ToolsSetActive ==
    /\ Idle
    /\ Cardinality(DOMAIN items) = Len(ToolsSetup)
    /\ UNCHANGED <<trail, services>>
    /\ \E name \in DOMAIN items : SetActiveProvider(name)
\* execute up to its throw or its first suspension
ToolsExecute ==
    /\ Idle
    /\ Len(trail) < MaxToolRuns
    /\ \E params \in ToolParams :
          LET t == Tool_execute(params, services)
          IN IF t.k = "throw"
             THEN /\ trail' = Append(trail, ToolRun(params, services, NoLast, Err(t.e)))
                  /\ UNCHANGED services
                  /\ UNCHANGED <<items, activeItemName, registered, files, counts,
                                 inflight, last>>
             ELSE /\ StartCallUpTo(t.c, MaxToolRuns)
                  /\ UNCHANGED <<trail, services>>
\* the awaited call settles and execute returns
ToolsReturn ==
    /\ \E i \in 1..Len(inflight) : CompleteCall(i)
    /\ \E params \in ToolParams :
          /\ Tool_execute(params, services).k = "call"
          /\ Tool_execute(params, services).c = last'.call
          /\ trail' = Append(trail, ToolRun(params, services, last', Tool_return(last'.out)))
          /\ UNCHANGED services

NextTools == ToolsInstall \/ ToolsRegister \/ ToolsSetActive \/ ToolsExecute \/ ToolsReturn

SpecTools == Init /\ [][NextTools]_vars

-----------------------------------------------------------------------------
\* Installation (plugin.ts, index.ts): the application's configuration
\* decides whether a CDNService is added to the application.

\* new CDNService(): a registry with no entry and nothing selected
CDNService_new == [t |-> "CDNService", items |-> EmptyMap, activeItemName |-> <<>>]

\* app.addServices(service)
addServices(app, service) == Append(app, service)

\* CDNConfigSchema: { providers: Record<string, any> }, optional
CDNConfig(providers) == [t |-> "object", providers |-> providers]
ProviderConfig(type) == [t |-> "object", type |-> type]
CDNConfigs ==
    {Undefined,
     CDNConfig(EmptyMap),
     CDNConfig(Put(EmptyMap, "s3", ProviderConfig("s3"))),
     CDNConfig(Put(Put(EmptyMap, "s3", ProviderConfig("s3")), "S3", ProviderConfig("http")))}
\* the application configuration / its slices
AppConfig(cdn) == [cdn |-> cdn]
getConfigSlice(config, key) == config[key]

\* variant: install registers a provider for every configured name
plugin_install_RegistersConfigured(app, config) ==
    IF ~Falsy(config.cdn)
    THEN addServices(app, [CDNService_new EXCEPT
                              !.items = [n \in DOMAIN config.cdn.providers |-> "base"]])
    ELSE app

\* plugin.ts install(app, config)
plugin_install(app, config) ==
    IF ~Falsy(config.cdn) THEN addServices(app, CDNService_new) ELSE app

\* index.ts install(agentTeam), the configuration read from the team
index_install(agentTeam, teamConfig) ==
    LET config == getConfigSlice(teamConfig, "cdn")
    IN IF ~Falsy(config) THEN addServices(agentTeam, CDNService_new) ELSE agentTeam

\* an install as its caller saw it
InstallCall(via, config) ==
    [op |-> "install", form |-> via, name |-> "", url |-> "", data |-> Undefined,
     options |-> Undefined, config |-> config]
InstallObserved(via, config) ==
    Observed(InstallCall(via, config), NoProvider, FALSE, <<>>, Undefined, NoResponse,
             Undefined, Ok(Undefined))

PluginInstall ==
    /\ Len(services) < MaxServices
    /\ \E cdn \in CDNConfigs :
          /\ services' = plugin_install(services, AppConfig(cdn))
          /\ last' = InstallObserved("plugin", AppConfig(cdn))
    /\ UNCHANGED <<items, activeItemName, registered, files, counts, inflight, trail>>

PackageInstall ==
    /\ Len(services) < MaxServices
    /\ \E cdn \in CDNConfigs :
          /\ services' = index_install(services, AppConfig(cdn))
          /\ last' = InstallObserved("package", AppConfig(cdn))
    /\ UNCHANGED <<items, activeItemName, registered, files, counts, inflight, trail>>

\* the providers application code registers on an installed service
InstalledProviders == {"mock1", "base"}

\* registerProvider(name, provider) on the i-th installed service
InstalledRegister ==
    /\ \E i \in 1..Len(services), name \in Names, p \in InstalledProviders :
          /\ services' = [services EXCEPT ![i].items = Registry_register(@, name, p)]
          /\ last' = RegistryObserved("registerProvider", name, p, Ok(Undefined))
    /\ UNCHANGED <<items, activeItemName, registered, files, counts, inflight, trail>>

NextPlugin == PluginInstall \/ PackageInstall \/ InstalledRegister

SpecPlugin == Init /\ [][NextPlugin]_vars

-----------------------------------------------------------------------------
\* Properties. Each one reads `last`, the operation that settled most
\* recently, against `registered`, the history of registerProvider calls.

IsRegistered(name) == name \in DOMAIN registered
NamedCall == last.call.form = "named"
ActiveCall == last.call.form = "active"
NotFoundError(name) ==
    Error("CDN " \o name
          \o " not found. Please register it first with registerCDN(cdnName, cdnProvider).")
NoActiveError == Error("No active provider set")

\* C1: after registerProvider(N, P), getCDNByName(N) returns the instance P;
\* getCDNByName(M) for a name M never registered (names are case-sensitive)
\* fails with the provider-not-found error naming M.
C1_LookupReturnsRegistered ==
    last.call.op = "getCDNByName" =>
        IF IsRegistered(last.call.name)
        THEN last.out = Ok(registered[last.call.name])
        ELSE last.out = Err(NotFoundError(last.call.name))

C1_Witness ==
    /\ last.call.op = "getCDNByName"
    /\ last.call.name = "s3"
    /\ last.out = Ok("mock1")
    /\ IsRegistered("S3") /\ registered["S3"] = "base"

\* C2: upload, download and delete in the named form with a name that is not
\* in the registry fail with ProviderNotFound ("CDN <name> not found"), in
\* every registry state and for all other arguments; no provider is invoked.
C2_NamedUnknownFails ==
    (/\ last.call.op \in {"upload", "download", "delete"}
     /\ NamedCall
     /\ ~IsRegistered(last.call.name))
    => (last.out = Err(NotFoundError(last.call.name)) /\ ~last.invoked)

C2_Witness ==
    /\ last.call.op = "download"
    /\ NamedCall
    /\ last.call.name = "S3"
    /\ IsRegistered("s3") /\ ~IsRegistered("S3")
    /\ activeItemName = <<"s3">>
    /\ last.out = Err(NotFoundError("S3"))

\* C3: exists in the named form with a name that is not in the registry
\* returns false and raises no error.
C3_ExistsUnknownReturnsFalse ==
    (last.call.op = "exists" /\ NamedCall /\ ~IsRegistered(last.call.name))
    => last.out = Ok(Bool(FALSE))

\* C4: exists in the named form with a name that is not in the registry
\* rejects with the provider-not-found error "CDN <name> not found", as
\* named download and delete do.
C4_ExistsUnknownRejects ==
    (last.call.op = "exists" /\ NamedCall /\ ~IsRegistered(last.call.name))
    => (last.out = Err(NotFoundError(last.call.name)) /\ ~last.invoked)

C4_Witness ==
    /\ last.call.op = "exists"
    /\ NamedCall
    /\ last.call.name = "S3"
    /\ IsRegistered("s3") /\ ~IsRegistered("S3")
    /\ activeItemName = <<"s3">>
    /\ last.out = Err(NotFoundError("S3"))

\* C5: while no registry entry is active, a name-omitting upload, download
\* or delete fails with NoActiveProvider and yields no result.
C5_NoActiveFails ==
    (/\ last.call.op \in {"upload", "download", "delete"}
     /\ ActiveCall
     /\ activeItemName = <<>>)
    => (last.out = Err(NoActiveError) /\ ~last.invoked)

C5_Witness ==
    /\ last.call.op = "upload"
    /\ ActiveCall
    /\ activeItemName = <<>>
    /\ IsRegistered("s3") /\ registered["s3"] = "mock1"
    /\ last.out = Err(NoActiveError)

\* the provider a call of `last` resolves to, from the registration history
ResolvesTo(p) ==
    \/ NamedCall /\ IsRegistered(last.call.name) /\ registered[last.call.name] = p
    \/ /\ ActiveCall
       /\ activeItemName # <<>>
       /\ registered[activeItemName[1]] = p

\* C6: delete, named or name-omitting, that resolves to a backend without a
\* delete operation fails with UnsupportedOperation whatever the url is: the
\* backend is not invoked, no request is made and no stored object changes.
C6_DeleteUnsupported ==
    (last.call.op = "delete" /\ ResolvesTo("base"))
    => /\ ~last.out.ok
       /\ last.out.e.message =
            (IF NamedCall THEN "CDN " \o last.call.name \o " does not support deletion"
             ELSE "Active CDN does not support deletion")
       /\ ~last.invoked
       /\ last.req = Undefined

C6_DeleteLeavesFiles ==
    [][(/\ Len(inflight') = Len(inflight) + 1
        /\ inflight'[Len(inflight')].call.op = "delete"
        /\ inflight'[Len(inflight')].st = "thrown")
       => (files' = files /\ counts' = counts)]_vars

C6_DeleteUnsupportedKeepsObjects == []C6_DeleteUnsupported /\ C6_DeleteLeavesFiles

C6_Witness ==
    /\ last.call.op = "delete"
    /\ ActiveCall
    /\ ResolvesTo("base")
    /\ last.call.url = "a.txt"
    /\ IsRegistered("s3") /\ registered["s3"] = "mock1"
    /\ "a.txt" \in DOMAIN files["mock1"]
    /\ last.out = Err(Error("Active CDN does not support deletion"))

\* C7: an error raised inside a backend's own upload, delete, download or
\* exists reaches the caller of the dispatch service as that same error,
\* unwrapped, and never as a result value.
C7_BackendErrorUnchanged ==
    (last.invoked /\ ~last.backend.ok)
    => (~last.out.ok /\ last.out.e = last.backend.e)

C7_Witness ==
    /\ last.call.op = "delete"
    /\ last.invoked
    /\ last.p = "failing"
    /\ last.out = Err(Error("Delete failed"))

\* C8: the default exists never raises: it returns true exactly when the
\* HEAD request completes with a success response, and false both for a
\* non-success response and for a transport error.
C8_DefaultExists ==
    (last.call.op = "exists" /\ last.invoked /\ last.p \in {"base", "failing"})
    => /\ last.req = [t |-> "request", method |-> "HEAD", url |-> last.call.url]
       /\ last.backend = Ok(Bool(last.response.k = "response" /\ last.response.ok))

C8_Witness ==
    /\ last.call.op = "exists"
    /\ last.p = "base"
    /\ last.response.k = "rejected"
    /\ last.out = Ok(Bool(FALSE))

\* C9, as stated: the default download issues a GET to the url; a
\* non-success response fails with "Failed to download file: <statusText>",
\* a success response yields the response body as bytes, a transport error
\* of the request is propagated.
C9_SuccessYieldsBody ==
    (last.call.op = "download" /\ last.invoked /\ last.p = "base")
    => /\ last.req = [t |-> "request", method |-> "GET", url |-> last.call.url]
       /\ last.backend =
            (IF last.response.k = "rejected" THEN Err(last.response.e)
             ELSE IF last.response.ok THEN Ok(Buf(last.response.body))
             ELSE Err(Error("Failed to download file: " \o last.response.statusText)))

\* C9, amended: the default download issues a GET to the url; a non-success
\* response fails with "Failed to download file: <statusText>"; a success
\* response whose body is read yields that body as bytes; a transport error,
\* of the request or of the read of the body, is propagated as it is.
C9_DefaultDownload ==
    (last.call.op = "download" /\ last.invoked /\ last.p = "base")
    => /\ last.req = [t |-> "request", method |-> "GET", url |-> last.call.url]
       /\ last.backend =
            (IF last.response.k = "rejected" THEN Err(last.response.e)
             ELSE IF ~last.response.ok
             THEN Err(Error("Failed to download file: " \o last.response.statusText))
             ELSE IF last.response.bodyErr = Undefined THEN Ok(Buf(last.response.body))
             ELSE Err(last.response.bodyErr))

C9_Witness ==
    /\ last.call.op = "download"
    /\ last.p = "base"
    /\ last.response.k = "response" /\ last.response.ok
    /\ last.response.bodyErr = Error("Body read failed")
    /\ last.out = Err(Error("Body read failed"))

\* UTF-8 encoding of the text payloads
Utf8(text) == IF text = "hi" THEN <<104, 105>> ELSE <<>>

\* C10: upload takes its payload as text or as bytes; a text payload is
\* converted to its UTF-8 bytes before the backend's upload is invoked, so
\* the backend always receives a byte sequence.
C10_TextPayloadConverted ==
    (last.call.op = "upload" /\ last.invoked)
    => /\ IsBuffer(last.recv[1])
       /\ (last.call.data.t = "string" => last.recv[1] = Buf(Utf8(last.call.data.v)))

\* the outcome of `last` is that of the named path for `name`: the provider
\* registered under it was used, or the lookup failed
IsDispatch == last.call.op \in {"upload", "download", "delete", "exists"}
UsedProvider(p, unsupported) ==
    \/ last.invoked /\ last.p = p
    \/ /\ last.call.op = "delete" /\ ~HasDelete(p)
       /\ ~last.invoked /\ last.out = Err(Error(unsupported))
TookNamed(name) ==
    IF IsRegistered(name)
    THEN UsedProvider(registered[name], "CDN " \o name \o " does not support deletion")
    ELSE ~last.invoked /\ last.out = Err(NotFoundError(name))
\* the outcome of `last` is that of the active path
TookActive ==
    IF activeItemName = <<>>
    THEN ~last.invoked /\ last.out = Err(NoActiveError)
    ELSE UsedProvider(registered[activeItemName[1]], "Active CDN does not support deletion")

\* C11 (as stated): for upload, download, exists and delete alike the path is
\* chosen on the type of the first positional argument alone: a payload
\* selects the active provider, a string the provider named by that string.
C11_FirstArgTypeSelects ==
    IsDispatch =>
        LET a == Args(last.call)
        IN IF a[1].t = "string" THEN TookNamed(a[1].v) ELSE TookActive

\* C11 (amended): upload takes the active path exactly when its first
\* argument is a Buffer and otherwise reads the first argument as a provider
\* name; download, exists and delete take the active path exactly when the
\* second argument is absent and otherwise read the first as a provider name.
C11_OverloadSelection ==
    IsDispatch =>
        LET a == Args(last.call)
            active == IF last.call.op = "upload" THEN IsBuffer(a[1]) ELSE a[2] = Undefined
        IN IF active THEN TookActive ELSE TookNamed(a[1].v)

C11_Witness ==
    /\ last.call.op = "upload"
    /\ last.call.data = Str("hi")
    /\ Args(last.call)[1] = Str("hi")
    /\ activeItemName = <<"s3">> /\ registered["s3"] = "mock1"
    /\ last.out = Err(NotFoundError("hi"))

\* C12: at most one registry entry is active; setActiveProvider(N) for a
\* registered N makes N the only active entry, and from then on every
\* name-omitting upload, download, exists and delete is forwarded to the
\* provider registered under N, until the next successful setActiveProvider.
C12_ActiveForwards ==
    /\ Len(activeItemName) <= 1
    /\ (activeItemName # <<>> => IsRegistered(activeItemName[1]))
    /\ (last.call.op = "setActiveProvider" /\ IsRegistered(last.call.name))
       => (last.out.ok /\ activeItemName = <<last.call.name>>)
    /\ (IsDispatch /\ ActiveCall /\ activeItemName # <<>>)
       => UsedProvider(registered[activeItemName[1]], "Active CDN does not support deletion")

C12_OnlySetActiveSelects ==
    [][activeItemName' # activeItemName
       => (/\ last'.call.op = "setActiveProvider"
           /\ last'.out.ok
           /\ activeItemName' = <<last'.call.name>>)]_vars

C12_SingleActiveSelection == []C12_ActiveForwards /\ C12_OnlySetActiveSelects

C12_Witness ==
    /\ last.call.op = "download"
    /\ ActiveCall
    /\ activeItemName = <<"S3">>
    /\ IsRegistered("s3") /\ registered["s3"] = "mock1"
    /\ registered["S3"] = "failing"
    /\ "a.txt" \in DOMAIN files["mock1"]
    /\ last.invoked /\ last.p = "failing"
    /\ last.out = Err(Error("Download failed"))

\* the error setActive raises for an unregistered name
ItemNotFound(name) == Error("Item " \o name \o " not found")

\* C13: setActive(N) for a name N that is not registered fails with the
\* not-found error naming N and leaves the active selection and the registry
\* entries exactly as they were.
C13_SetActiveUnknownFails ==
    (last.call.op = "setActiveProvider" /\ ~IsRegistered(last.call.name))
    => last.out = Err(ItemNotFound(last.call.name))

C13_SetActiveUnknownKeeps ==
    [][(last'.call.op = "setActiveProvider" /\ last'.call.name \notin DOMAIN registered)
       => (activeItemName' = activeItemName /\ items' = items)]_vars

C13_SetActiveUnknown == []C13_SetActiveUnknownFails /\ C13_SetActiveUnknownKeeps

C13_Witness ==
    /\ last.call.op = "setActiveProvider"
    /\ last.call.name = "S3"
    /\ ~IsRegistered("S3")
    /\ activeItemName = <<"s3">>
    /\ registered["s3"] = "mock1"
    /\ last.out = Err(ItemNotFound("S3"))

\* the name a dispatch call of `last` is resolved by, <<>> if there is none
ResolvedBy ==
    IF NamedCall THEN <<last.call.name>> ELSE activeItemName

Operations == {"upload", "download", "delete", "exists"}

\* the registrations of name n logged before position j, and the last of them
RegistersBefore(j, n) ==
    {i \in 1..(j - 1) :
        trail[i].call.op = "registerProvider" /\ trail[i].call.name = n}
LatestRegister(j, n) ==
    CHOOSE i \in RegistersBefore(j, n) : \A k \in RegistersBefore(j, n) : k <= i
\* the selections that succeeded before position j, and the last of them
SelectsBefore(j) ==
    {i \in 1..(j - 1) : trail[i].call.op = "setActiveProvider" /\ trail[i].out.ok}
LatestSelect(j) == CHOOSE i \in SelectsBefore(j) : \A k \in SelectsBefore(j) : k <= i
\* the name the call logged at position j is resolved by, <<>> if none
ResolvedByAt(j) ==
    IF trail[j].call.form = "named" THEN <<trail[j].call.name>>
    ELSE IF SelectsBefore(j) = {} THEN <<>>
    ELSE <<trail[LatestSelect(j)].call.name>>
\* the providers that a registration logged before position j replaced
ReplacedBefore(j) ==
    {trail[LatestRegister(i, trail[i].call.name)].p :
        i \in {k \in 1..(j - 1) :
                  /\ trail[k].call.op = "registerProvider"
                  /\ RegistersBefore(k, trail[k].call.name) # {}
                  /\ trail[LatestRegister(k, trail[k].call.name)].p # trail[k].p}}
\* a logged dispatch call that reached a provider
ForwardedAt(j) == trail[j].call.op \in Operations /\ trail[j].invoked

\* a registration resolves to its provider and keeps the other entries
C14_RegisterResolves ==
    last.call.op = "registerProvider"
    => (getCDNByName(last.call.name) = Ok(last.p) /\ DOMAIN items = DOMAIN registered)

C14_ReplaceKeepsOthers ==
    [][(last'.call.op = "registerProvider" /\ last'.call.name \in DOMAIN items)
       => (/\ DOMAIN items' = DOMAIN items
           /\ Cardinality(DOMAIN items') = Cardinality(DOMAIN items)
           /\ \A n \in DOMAIN items \ {last'.call.name} : items'[n] = items[n])]_vars

\* C14, as stated: registering a provider under a name that is already
\* registered replaces the prior entry: afterwards the name resolves to the
\* new provider only, the number of entries is unchanged, and no operation is
\* ever forwarded to the replaced provider by a later call.
C14_NeverForwardedToReplaced ==
    /\ C14_RegisterResolves
    /\ \A j \in 1..Len(trail) : ForwardedAt(j) => trail[j].p \notin ReplacedBefore(j)

\* C14, amended: registering a provider under a name that is already
\* registered replaces the prior entry: afterwards the name resolves to the
\* new provider only, the number of entries is unchanged, and every later
\* call resolved through that name is forwarded to the provider registered
\* there last, not to the one replaced there; the replaced provider still
\* receives the calls resolved through another name it is registered under,
\* and through the same name once it is registered there again.
C14_ResolvesToLatest ==
    /\ C14_RegisterResolves
    /\ \A j \in 1..Len(trail) :
          ForwardedAt(j)
          => (/\ ResolvedByAt(j) # <<>>
              /\ RegistersBefore(j, ResolvedByAt(j)[1]) # {}
              /\ trail[j].p = trail[LatestRegister(j, ResolvedByAt(j)[1])].p)

C14_ReRegisterReplaces == []C14_ResolvesToLatest /\ C14_ReplaceKeepsOthers

\* "mock1" was replaced by "mock2" under "s3"; the call naming "s3" reached
\* "mock2", the one naming "S3" would still reach "mock1"
C14_Witness ==
    /\ Len(trail) = 4
    /\ trail[1] = RegistryObserved("registerProvider", "s3", "mock1", Ok(Undefined))
    /\ trail[2] = RegistryObserved("registerProvider", "S3", "mock1", Ok(Undefined))
    /\ trail[3] = RegistryObserved("registerProvider", "s3", "mock2", Ok(Undefined))
    /\ trail[4].call = ConcurrentUrlCall("exists", "s3", "a.txt")
    /\ trail[4].invoked /\ trail[4].p = "mock2"
    /\ counts["mock1"] = ZeroCounts
    /\ items["S3"] = "mock1"

\* the url a settled call of the trail was about
UrlOf(e) == IF e.call.op = "upload" THEN e.call.options.filename ELSE e.call.url
\* the calls before position j that wrote or removed url f: uploads that
\* returned f and deletes of f
WritesBefore(j, f) ==
    {i \in 1..(j - 1) :
        /\ trail[i].call.op \in {"upload", "delete"}
        /\ UrlOf(trail[i]) = f
        /\ trail[i].out.ok}
LastWrite(j, f) == CHOOSE i \in WritesBefore(j, f) : \A k \in WritesBefore(j, f) : k <= i
\* f holds the bytes of its latest upload, unless a delete came after it
UploadedBefore(j, f) ==
    WritesBefore(j, f) # {} /\ trail[LastWrite(j, f)].call.op = "upload"

\* C15: round trip through the dispatch service on a storing backend B:
\* upload(B, d, {filename: f}) returns url f; from then on download(B, f)
\* returns exactly the bytes d and exists(B, f) is true; delete(B, f) then
\* returns success = true, after which exists(B, f) is false and a second
\* delete(B, f) returns success = false.
C15_RoundTrip ==
    \A j \in 1..Len(trail) :
        LET e == trail[j]
            f == UrlOf(e)
            stored == UploadedBefore(j, f)
        IN CASE e.call.op = "upload" ->
                  e.out = Ok(UploadResult(f, f, e.call.options.metadata))
             [] e.call.op = "download" ->
                  IF stored THEN e.out = Ok(trail[LastWrite(j, f)].call.data)
                  ELSE ~e.out.ok
             [] e.call.op = "exists" -> e.out = Ok(Bool(stored))
             [] e.call.op = "delete" ->
                  e.out.ok /\ e.out.v.success = stored
             [] OTHER -> TRUE

C15_Witness ==
    /\ Len(trail) = 6
    /\ trail[1].call.op = "upload" /\ trail[1].call.data = Buf(<<0, 1, 255>>)
    /\ trail[1].out.ok /\ trail[1].out.v.url = "a.txt"
    /\ trail[2].call.op = "download" /\ trail[2].out = Ok(Buf(<<0, 1, 255>>))
    /\ trail[3].call.op = "exists" /\ trail[3].out = Ok(Bool(TRUE))
    /\ trail[4].call.op = "delete" /\ trail[4].out.ok /\ trail[4].out.v.success
    /\ trail[5].call.op = "exists" /\ trail[5].out = Ok(Bool(FALSE))
    /\ trail[6].call.op = "delete" /\ trail[6].out.ok /\ ~trail[6].out.v.success

\* the number of positions of a sequence of calls that satisfy Test
CountIn(seq, Test(_)) == Cardinality({i \in 1..Len(seq) : Test(seq[i])})
IsUploadOn(name, e) == e.call.op = "upload" /\ e.call.name = name

\* C16: when several uploads with distinct payloads and distinct filenames
\* are in flight at the same time against one backend, then whatever the
\* order in which they start and settle, each call returns the result built
\* from its own options, there is one result per call, and the backend is
\* invoked once per call and holds each payload under its own url.
C16_ConcurrentUploads ==
    LET OnS3(e) == IsUploadOn("s3", e)
    IN /\ \A j \in 1..Len(trail) :
            trail[j].call.op = "upload" =>
                LET f == trail[j].call.options.filename
                IN /\ trail[j].out = Ok(UploadResult(f, f, trail[j].call.options.metadata))
                   /\ \A k \in 1..Len(trail) : trail[k].call = trail[j].call => k = j
       /\ \A i \in 1..Len(inflight), j \in 1..Len(trail) : inflight[i].call # trail[j].call
       /\ counts["mock1"].upload = CountIn(inflight, OnS3) + CountIn(trail, OnS3)
       /\ \A c \in ConcurrentUploads :
            c \in Issued =>
                (/\ c.options.filename \in DOMAIN files["mock1"]
                 /\ files["mock1"][c.options.filename] = c.data)

C16_Witness ==
    /\ Len(inflight) = 2
    /\ inflight[1].call = ConcurrentUpload("s3", <<1>>, "c1.txt")
    /\ inflight[2].call = ConcurrentUpload("s3", <<3>>, "c3.txt")
    /\ Len(trail) = 1
    /\ trail[1].call = ConcurrentUpload("s3", <<2>>, "c2.txt")
    /\ trail[1].out = Ok(UploadResult("c2.txt", "c2.txt", Undefined))
    /\ counts["mock1"].upload = 3

\* the providers other than the one registered under name
OtherProviders(name) ==
    {q \in MockProviders : ~(IsRegistered(name) /\ registered[name] = q)}

\* C17: a named operation on provider A invokes only A: the stored objects
\* and the invocation counts of every other registered provider are
\* unchanged by it, also while calls to other provider names are in flight.
C17_InvokesNamedOnly ==
    \A i \in 1..Len(inflight) :
        LET e == inflight[i]
        IN IF IsRegistered(e.call.name)
           THEN e.invoked /\ e.p = registered[e.call.name]
           ELSE ~e.invoked

C17_OthersUnchanged ==
    [][IF Len(inflight') = Len(inflight) + 1
       THEN \A q \in OtherProviders(inflight'[Len(inflight')].call.name) :
                files'[q] = files[q] /\ counts'[q] = counts[q]
       ELSE files' = files /\ counts' = counts]_vars

C17_ProviderIsolation == []C17_InvokesNamedOnly /\ C17_OthersUnchanged

C17_Witness ==
    /\ Len(inflight) = 2
    /\ inflight[1].call = ConcurrentUpload("S3", <<2>>, "c1.txt")
    /\ inflight[2].call = ConcurrentUpload("s3", <<1>>, "c1.txt")
    /\ files["mock1"] = Put(EmptyMap, "c1.txt", Buf(<<1>>))
    /\ files["mock2"] = Put(EmptyMap, "c1.txt", Buf(<<2>>))
    /\ CountOf("mock1") = 1 /\ CountOf("mock2") = 1

\* the arguments the caller of `last` gave for the backend
CallerArgs ==
    IF last.call.op = "upload" THEN <<last.call.data, last.call.options>>
    ELSE <<Str(last.call.url)>>

\* C18: the dispatch service forwards the caller's data, options and url to
\* the resolved backend unchanged and returns the backend's value unchanged:
\* the UploadResult, the DeleteResult (also success = false with its
\* message), the downloaded bytes and the exists boolean are exactly what the
\* backend produced.
C18_ForwardsUnchanged ==
    (IsDispatch /\ last.invoked)
    => /\ last.recv = CallerArgs
       /\ (last.backend.ok => last.out = last.backend)

C18_Witness ==
    /\ last.call.op = "delete" /\ NamedCall
    /\ last.invoked /\ last.p = "mock1"
    /\ last.recv = <<Str("a.txt")>>
    /\ last.backend = Ok(DeleteResult(FALSE, "File not found"))
    /\ last.out = Ok(DeleteResult(FALSE, "File not found"))

\* the outcome is the UnsupportedOperation error of delete
IsUnsupported(out) ==
    /\ ~out.ok
    /\ out.e \in {Error("Active CDN does not support deletion")}
                 \cup {Error("CDN " \o n \o " does not support deletion") : n \in Names}

\* the dispatch calls of the no-retry scenario, in flight or settled
OnceEntries ==
    {inflight[i] : i \in 1..Len(inflight)} \cup {trail[j] : j \in 1..Len(trail)}
\* whether the provider resolution of a call succeeds, and the provider it
\* gives (the entries and the selection are fixed before the first call)
OnceResolved(c) ==
    IF c.form = "named" THEN IsRegistered(c.name) ELSE activeItemName # <<>>
OnceProvider(c) ==
    registered[IF c.form = "named" THEN c.name ELSE activeItemName[1]]
\* a delete resolved to a backend without the delete capability
OnceRefused(c) ==
    OnceResolved(c) /\ c.op = "delete" /\ ~HasDelete(OnceProvider(c))
\* the calls issued so far that resolve to provider p with operation m
OnceIssuedOn(p, m) ==
    {c \in Issued : c.op = m /\ OnceResolved(c) /\ OnceProvider(c) = p}
\* every issued call is in flight or settled, once
OnceOneOutcome ==
    /\ \A j, k \in 1..Len(trail) : trail[k].call = trail[j].call => k = j
    /\ \A i, k \in 1..Len(inflight) : inflight[k].call = inflight[i].call => k = i
    /\ \A i \in 1..Len(inflight), j \in 1..Len(trail) : inflight[i].call # trail[j].call
    /\ \A j \in 1..Len(trail) : (~trail[j].invoked => ~trail[j].out.ok)
\* an invoked call ran on the resolved provider; a default method issued its
\* one request
OnceOnResolved(e) ==
    e.invoked
    => /\ e.p = OnceProvider(e.call)
       /\ (e.p = "base"
           => e.req = [t |-> "request",
                       method |-> IF e.call.op = "download" THEN "GET" ELSE "HEAD",
                       url |-> e.call.url])

Unimplemented == Error("Method 'upload' must be implemented by subclasses")

\* C20: upload dispatched to a backend that does not override upload fails
\* with the Unimplemented error ("Method 'upload' must be implemented by
\* subclasses") and stores nothing.
C20_BaseUploadFails ==
    (last.call.op = "upload" /\ ResolvesTo("base"))
    => /\ last.invoked /\ last.p = "base"
       /\ last.out = Err(Unimplemented)
       /\ last.req = Undefined

C20_BaseUploadStoresNothing ==
    [][(/\ Len(inflight') = Len(inflight) + 1
        /\ inflight'[Len(inflight')].call.op = "upload"
        /\ inflight'[Len(inflight')].p = "base")
       => (files' = files /\ counts' = counts)]_vars

C20_UploadUnimplemented == []C20_BaseUploadFails /\ C20_BaseUploadStoresNothing

C20_Witness ==
    /\ last.call.op = "upload" /\ ActiveCall
    /\ activeItemName = <<"S3">>
    /\ registered["S3"] = "base"
    /\ last.call.data = Buf(<<0, 1, 255>>)
    /\ last.invoked /\ last.p = "base"
    /\ last.out = Err(Unimplemented)

\* C21: registry entries are never removed: once registerProvider(N, _) has
\* happened, getCDNByName(N) succeeds in every later state, after any
\* sequence of registrations, selections and dispatch calls, failed or not.
C21_RegisteredResolves ==
    \A name \in DOMAIN registered : getCDNByName(name).ok

C21_EntriesStay ==
    [][\A name \in Names : getCDNByName(name).ok => (getCDNByName(name).ok)']_vars

C21_EntriesNeverRemoved == []C21_RegisteredResolves /\ C21_EntriesStay

C21_Witness ==
    /\ last.call.op = "getCDNByName" /\ last.call.name = "s3"
    /\ last.out = Ok("mock1")
    /\ "a.txt" \in DOMAIN files["mock1"]
    /\ activeItemName = <<"S3">>
    /\ registered["S3"] = "base"

\* C22: the active selection is independent of entry presence: registering
\* a provider never marks one active, so while only registerProvider calls
\* have been made a name-omitting call still fails with NoActiveProvider.
C22_NoneActiveAfterRegister ==
    (IsDispatch /\ ActiveCall /\ activeItemName = <<>> /\ DOMAIN registered # {})
    => (~last.invoked /\ last.out = Err(NoActiveError))

C22_RegisterKeepsSelection ==
    [][last'.call.op = "registerProvider" => activeItemName' = activeItemName]_vars

C22_RegisterDoesNotSelect == []C22_NoneActiveAfterRegister /\ C22_RegisterKeepsSelection

C22_Witness ==
    /\ DOMAIN registered = {"s3", "S3"}
    /\ activeItemName = <<>>
    /\ last.call.op = "exists" /\ ActiveCall
    /\ ~last.invoked
    /\ last.out = Err(NoActiveError)

\* a call, in flight or settled, was resolved to one of the providers ps
ResolvedAmong(e, out, ps) ==
    \/ e.invoked /\ e.p \in ps
    \/ /\ e.call.op = "delete" /\ ~e.invoked /\ "base" \in ps
       /\ out = Err(Error("Active CDN does not support deletion"))

\* C23: while the selection is switched between provider A and provider B
\* with name-omitting calls in flight, no call sees a half-updated selection:
\* each name-omitting call resolves to A or to B, never to no provider and
\* never to a third one.
C23_ResolvesToAOrB ==
    LET AB == {items[n] : n \in SwitchNames \cap DOMAIN items}
    IN /\ \A i \in 1..Len(inflight) : ResolvedAmong(inflight[i], inflight[i].res, AB)
       /\ \A j \in 1..Len(trail) : ResolvedAmong(trail[j], trail[j].out, AB)

C23_SelectionNeverEmpties ==
    [][activeItemName # <<>> => activeItemName' # <<>>]_vars

C23_NoHalfUpdatedSelection == []C23_ResolvesToAOrB /\ C23_SelectionNeverEmpties

\* a download resolved to "base" is still suspended, the selection has moved
\* to "s3", and the exists made after the switch went to "mock1"
C23_Witness ==
    /\ Len(inflight) = 1
    /\ inflight[1].call.op = "download" /\ inflight[1].p = "base"
    /\ inflight[1].st = "fetch"
    /\ activeItemName = <<"s3">>
    /\ Len(trail) = 1
    /\ trail[1].call.op = "exists" /\ trail[1].p = "mock1"

\* the classes of the test suite that define the operation themselves
Overrides(p, m) ==
    \/ p \in MockProviders
    \/ p = "failing" /\ m \in {"upload", "download", "delete"}

\* C24: download and exists dispatch to the backend's effective
\* implementation: when the resolved backend overrides the operation, the
\* override is invoked and the core makes no network request; only when it
\* does not is the default used, which issues one GET (download) or one HEAD
\* (exists) to the given url.
C24_EffectiveImplementation ==
    (last.call.op \in {"download", "exists"} /\ last.invoked)
    => IF Overrides(last.p, last.call.op)
       THEN /\ last.req = Undefined
            /\ last.response = NoResponse
            /\ (last.p \in MockProviders => counts[last.p][last.call.op] >= 1)
       ELSE /\ last.req = [t |-> "request",
                           method |-> IF last.call.op = "download" THEN "GET" ELSE "HEAD",
                           url |-> last.call.url]
            /\ last.response \in Responses

C24_Witness ==
    /\ last.call.op = "exists" /\ last.invoked /\ last.p = "failing"
    /\ last.req = [t |-> "request", method |-> "HEAD", url |-> "file-1.txt"]
    /\ last.response = Response(TRUE, "OK", <<0, 1, 255>>)
    /\ last.out = Ok(Bool(TRUE))

\* the parameter a tool requires
Required(params) == IF params.tool = UploadToolName THEN params.data ELSE params.url
ParameterRequired(params) ==
    Error("[" \o params.tool \o "] '"
          \o (IF params.tool = UploadToolName THEN "data" ELSE "url")
          \o "' parameter is required")
IsMissing(x) == x = Undefined \/ x = Str("")

\* both services are in the registry of a run
HasServices(run) ==
    \A type \in {"ChatService", "CDNService"} :
        \E i \in 1..Len(run.registry) : run.registry[i].t = type

\* what a run is held to once the lookups are behind it
ChecksParameter(run) ==
    IF IsMissing(Required(run.params))
    THEN run.out = Err(ParameterRequired(run.params)) /\ run.service = NoLast
    ELSE /\ run.service.call.form = "active"
         /\ run.service.call.op =
              (IF run.params.tool = UploadToolName THEN "upload" ELSE "delete")
         /\ (run.params.tool = UploadToolName
             => run.service.call.data = Buf(<<0, 1, 255>>))
         /\ (run.params.tool = DeleteToolName
             => run.service.call.url = run.params.url.v)
         /\ run.out = run.service.out

\* C25, as stated: both tool wrappers check their required parameter first:
\* the upload tool without data and the delete tool without url fail with a
\* "parameter is required" error before any call of the dispatch service;
\* with the parameter present they call the name-omitting form and return
\* the service's result unchanged.
C25_ParameterCheckedFirst == \A j \in 1..Len(trail) : ChecksParameter(trail[j])

\* C25, amended: both tool wrappers first look up the chat service and the
\* CDN service in the registry they are given and fail, whatever the
\* parameters, when one is missing; with both present they check their
\* required parameter before any call of the dispatch service (without data,
\* without url: "parameter is required", no backend invoked, nothing stored
\* or deleted) and otherwise call the name-omitting form and return the
\* service's result unchanged, a success = false delete result as a value.
C25_ToolRuns ==
    \A j \in 1..Len(trail) :
        LET run == trail[j]
        IN IF HasServices(run) THEN ChecksParameter(run)
           ELSE ~run.out.ok /\ run.service = NoLast

C25_RefusalTouchesNothing ==
    [][(Len(trail') = Len(trail) + 1 /\ trail'[Len(trail')].service = NoLast)
       => UNCHANGED <<items, activeItemName, files, counts, inflight>>]_vars

C25_ToolsCheckParameter == []C25_ToolRuns /\ C25_RefusalTouchesNothing

\* a run without the CDN service that lacks its parameter too, then, with
\* both services, a refused and a forwarded run
C25_Witness ==
    /\ Len(trail) = 3
    /\ trail[1].registry = <<>>
    /\ trail[1].params.tool = UploadToolName /\ trail[1].params.data = Undefined
    /\ ~trail[1].out.ok /\ trail[1].out # Err(ParameterRequired(trail[1].params))
    /\ HasServices(trail[2])
    /\ trail[2].params.tool = DeleteToolName /\ trail[2].params.url = Str("")
    /\ trail[2].out = Err(Error("[cdn/delete] 'url' parameter is required"))
    /\ trail[3].params.tool = UploadToolName /\ trail[3].params.data = Str("AAH/")
    /\ trail[3].out = Ok(UploadResult("a.txt", "a.txt", Undefined))

\* the call started by a step, and whether its resolution fails in the
\* state it starts from
Starts == Len(inflight') = Len(inflight) + 1
Started == inflight'[Len(inflight')]
ResolutionFails(c) ==
    \/ c.form = "named" /\ c.name \notin DOMAIN items
    \/ c.form = "active" /\ activeItemName = <<>>

\* C26: when provider resolution fails (ProviderNotFound or
\* NoActiveProvider), no operation of any provider is invoked, and the
\* registry entries, the active selection and every backend's stored objects
\* are the same after the failed call as before it.
C26_FailedStartTouchesNothing ==
    [][(Starts /\ ResolutionFails(Started.call))
       => (/\ ~Started.invoked
           /\ Started.res = Err(IF Started.call.form = "named"
                                THEN NotFoundError(Started.call.name)
                                ELSE NoActiveError)
           /\ UNCHANGED <<items, activeItemName, files, counts>>)]_vars

C26_FailedSettleTouchesNothing ==
    [][(Len(inflight') < Len(inflight) /\ ~last'.invoked)
       => UNCHANGED <<items, activeItemName, files, counts>>]_vars

C26_FailedResolutionFrame == C26_FailedStartTouchesNothing /\ C26_FailedSettleTouchesNothing

C26_Witness ==
    /\ last.call.op = "delete" /\ ActiveCall
    /\ activeItemName = <<>>
    /\ last.out = Err(NoActiveError) /\ ~last.invoked
    /\ IsRegistered("s3") /\ registered["s3"] = "mock1"
    /\ "a.txt" \in DOMAIN files["mock1"]

\* C27: upload, download, exists and delete never change the registry: the
\* set of registered names, the provider bound to each name and the active
\* selection are identical before and after every dispatch call, successful
\* or failed.
C27_DispatchKeepsRegistry ==
    [][inflight' # inflight
       => (/\ DOMAIN items' = DOMAIN items
           /\ \A name \in DOMAIN items : items'[name] = items[name]
           /\ activeItemName' = activeItemName)]_vars

C27_Witness ==
    /\ last.call.op = "upload" /\ NamedCall /\ last.call.name = "s3"
    /\ last.invoked /\ last.p = "mock1" /\ last.out.ok
    /\ activeItemName = <<"S3">>
    /\ DOMAIN items = {"s3", "S3"}
    /\ items["s3"] = "mock1" /\ items["S3"] = "base"

\* what the default download / exists of the base class yields for a response
DefaultOutcome(m, response) ==
    IF m = "exists" THEN Ok(Bool(response.k = "response" /\ response.ok))
    ELSE IF response.k = "rejected" THEN Err(response.e)
    ELSE IF ~response.ok
    THEN Err(Error("Failed to download file: " \o response.statusText))
    ELSE IF response.bodyErr = Undefined THEN Ok(Buf(response.body))
    ELSE Err(response.bodyErr)
\* the name a call is resolved by in the state it starts from
StartName(c) == IF c.form = "named" THEN c.name ELSE activeItemName[1]

\* C28: a dispatch call binds to its provider when it is made: if the name
\* (or the active selection) is re-pointed to another provider while the call
\* is suspended inside the backend, the call still completes on, and returns
\* the result of, the provider resolved when it started; only calls made
\* after the change use the new provider.
C28_BoundWhenStarted ==
    [][(Starts /\ ~ResolutionFails(Started.call))
       => (Started.invoked /\ Started.p = items[StartName(Started.call)])]_vars

C28_CompletesOnBound ==
    [][Len(inflight') < Len(inflight)
       => \E i \in 1..Len(inflight) :
            /\ inflight[i].call = last'.call
            /\ last'.p = inflight[i].p
            /\ (inflight[i].p = "base"
                => last'.out = DefaultOutcome(last'.call.op, last'.response))
            /\ (inflight[i].p \in MockProviders => last'.out = inflight[i].res)]_vars

C28_BindsAtCallTime == C28_BoundWhenStarted /\ C28_CompletesOnBound

\* the download started on "base" has completed there, although "s3" now
\* names "mock1" and an exists made after the change already used "mock1"
C28_Witness ==
    /\ Len(trail) = 2
    /\ trail[1].call.op = "exists" /\ trail[1].call.name = "s3"
    /\ trail[1].p = "mock1" /\ trail[1].out = Ok(Bool(FALSE))
    /\ trail[2].call.op = "download" /\ trail[2].call.name = "s3"
    /\ trail[2].p = "base" /\ trail[2].out = Ok(Buf(<<0, 1, 255>>))
    /\ items["s3"] = "mock1"

\* C29: delete checks in a fixed order, provider resolution first and the
\* delete capability second: a named delete on an unregistered name fails
\* with ProviderNotFound and a name-omitting delete with nothing selected
\* with NoActiveProvider, never with UnsupportedOperation, which is raised
\* only once a provider has been resolved and before any of its operations
\* is invoked.
C29_DeleteCheckOrder ==
    last.call.op = "delete"
    => /\ (NamedCall /\ ~IsRegistered(last.call.name))
          => last.out = Err(NotFoundError(last.call.name))
       /\ (ActiveCall /\ activeItemName = <<>>) => last.out = Err(NoActiveError)
       /\ IsUnsupported(last.out)
          => (/\ \E p \in Providers : ResolvesTo(p) /\ ~HasDelete(p)
              /\ ~last.invoked)

C29_Witness ==
    /\ last.call.op = "delete" /\ NamedCall /\ last.call.name = "S3"
    /\ ~IsRegistered("S3")
    /\ activeItemName = <<"s3">> /\ registered["s3"] = "base"
    /\ last.out = Err(NotFoundError("S3"))

\* C30: installation adds exactly one CDNService to the application when a
\* cdn configuration is present and none when it is absent; the service just
\* installed has an empty registry and no active provider, whatever
\* providers the configuration lists.
C30_InstallAddsOneService ==
    [][last'.call.op = "install"
       => IF last'.call.config.cdn # Undefined
          THEN /\ Len(services') = Len(services) + 1
               /\ \A i \in 1..Len(services) : services'[i] = services[i]
               /\ services'[Len(services')].t = "CDNService"
               /\ DOMAIN services'[Len(services')].items = {}
               /\ services'[Len(services')].activeItemName = <<>>
          ELSE services' = services]_vars

C30_Witness ==
    /\ last.call.op = "install"
    /\ last.call.config.cdn # Undefined
    /\ DOMAIN last.call.config.cdn.providers = {"s3", "S3"}
    /\ Len(services) = 2
    /\ DOMAIN services[1].items = {"s3"}
    /\ DOMAIN services[2].items = {} /\ services[2].activeItemName = <<>>

====
